---- MODULE Spec2Model ----
(***************************************************************************)
(* Model of the QC data-preparation pipeline of HoiTKN/QLone-data.         *)
(*                                                                         *)
(* Two implementations of the same pipeline live in the repository:        *)
(*   - data_processing.py : row-wise  (parse_ddmmyy, process_lot_dates,    *)
(*                          unify_date, remove_outliers, prepare_data)     *)
(*   - app.py             : vectorized (parse_dates_vectorized,            *)
(*                          remove_outliers, prepare_data)                 *)
(*                                                                         *)
(* Conventions.                                                            *)
(*   - A Python string is a sequence of one-character strings.             *)
(*   - An optional value is a sequence of length 0 or 1: Null == <<>> is   *)
(*     every pandas "missing" value (None, NaN, NaT; pd.isna is true of    *)
(*     all of them), Some(v) == <<v>> is a present value.                  *)
(*   - A date is the integer yyyymmdd.                                     *)
(*   - A number is an integer scaled by Scale (FracDigits decimal places). *)
(*   - A data frame keeps the index labels of the fetched table: rows are  *)
(*     named by their position 1..Len(table), tables returned by an        *)
(*     operation are sets of such labels.                                  *)
(***************************************************************************)
EXTENDS Integers, Sequences, FiniteSets, TLC

VARIABLES
    table,       \* the rows handed over by get_bigquery_data (raw cells)
    hasReceipt,  \* whether the fetched table has a 'Receipt Date' column
    op,          \* the operation that has run on the table ("none" before)
    args,        \* the (method, factor) arguments of that operation
    out,         \* what the operation returned
    cache,       \* the entries lru_cache keeps for app.prepare_data, oldest first
    log,         \* the calls of app.prepare_data made so far, in order
    stores,      \* the two dcc.Store of the Dash layout
    tab,         \* the selected tab of the Dash layout
    shown        \* the children of the 'tabs-content' Div

vars == <<table, hasReceipt, op, args, out, cache, log, stores, tab, shown>>

----------------------------------------------------------------------------
(* Optional values *)

Null == <<>>
Some(v) == <<v>>
IsNull(x) == x = Null
NotNull(x) == x # Null
Get(x) == x[1]

\* the data frame with the index labels S whose row i is f[i], every row
\* evaluated once
RECURSIVE Frame(_, _)
Frame(f, S) ==
    IF S = {} THEN <<>>
    ELSE LET i == CHOOSE j \in S : TRUE IN (i :> f[i]) @@ Frame(f, S \ {i})

----------------------------------------------------------------------------
(* Python str operations, character by character *)

UpperChars == <<"A", "B", "C", "D", "E", "F", "G", "H", "I", "J", "K", "L", "M",
                "N", "O", "P", "Q", "R", "S", "T", "U", "V", "W", "X", "Y", "Z">>
LowerChars == <<"a", "b", "c", "d", "e", "f", "g", "h", "i", "j", "k", "l", "m",
                "n", "o", "p", "q", "r", "s", "t", "u", "v", "w", "x", "y", "z">>
DigitChars == <<"0", "1", "2", "3", "4", "5", "6", "7", "8", "9">>

IsDigit(c) == \E i \in 1..10 : DigitChars[i] = c
DigitVal(c) == (CHOOSE i \in 1..10 : DigitChars[i] = c) - 1
IsSpace(c) == c = " "

\* str.lower()
LowerChar(c) ==
    IF \E i \in 1..26 : UpperChars[i] = c
    THEN LowerChars[CHOOSE i \in 1..26 : UpperChars[i] = c]
    ELSE c
Lower(s) == [i \in 1..Len(s) |-> LowerChar(s[i])]

\* str.strip()
Strip(s) ==
    LET keep == {i \in 1..Len(s) : ~IsSpace(s[i])}
    IN  IF keep = {} THEN <<>>
        ELSE LET lo == CHOOSE i \in keep : \A j \in keep : i <= j
                 hi == CHOOSE i \in keep : \A j \in keep : i >= j
             IN  SubSeq(s, lo, hi)

\* t in s
Contains(s, t) ==
    \E i \in 1..(Len(s) - Len(t) + 1) : SubSeq(s, i, i + Len(t) - 1) = t

\* s[:n]
Prefix(s, n) == IF Len(s) <= n THEN s ELSE SubSeq(s, 1, n)

\* s.split('-'): the pieces between hyphens, empty pieces included
RECURSIVE Split(_)
Split(s) ==
    LET hy == {i \in 1..Len(s) : s[i] = "-"}
    IN  IF hy = {} THEN <<s>>
        ELSE LET h == CHOOSE i \in hy : \A j \in hy : i <= j
             IN  <<SubSeq(s, 1, h - 1)>> \o Split(SubSeq(s, h + 1, Len(s)))

\* str(x) / astype(str): a missing cell becomes the text "None"
StrNone == <<"N", "o", "n", "e">>
AsStr(cell) == IF IsNull(cell) THEN StrNone ELSE Get(cell)

----------------------------------------------------------------------------
(* Dates: strptime with format '%d%m%y', as pandas.to_datetime runs it *)

IsLeap(y) == y % 4 = 0 /\ (y % 100 # 0 \/ y % 400 = 0)
DaysIn(y, m) ==
    IF m = 2 THEN (IF IsLeap(y) THEN 29 ELSE 28)
    ELSE IF m \in {4, 6, 9, 11} THEN 30 ELSE 31
ValidYMD(y, m, d) == m \in 1..12 /\ d >= 1 /\ d <= DaysIn(y, m)
Ymd(y, m, d) == y * 10000 + m * 100 + d

\* %d : 3[0-1] | [1-2]\d | 0[1-9] | [1-9] | " "[1-9]
MatchD(s, len) ==
    /\ Len(s) >= len
    /\ IF len = 2
       THEN \/ s[1] = "3" /\ s[2] \in {"0", "1"}
            \/ s[1] \in {"1", "2"} /\ IsDigit(s[2])
            \/ s[1] = "0" /\ IsDigit(s[2]) /\ s[2] # "0"
            \/ s[1] = " " /\ IsDigit(s[2]) /\ s[2] # "0"
       ELSE IsDigit(s[1]) /\ s[1] # "0"
\* %m : 1[0-2] | 0[1-9] | [1-9], matched at offset off
MatchM(s, off, len) ==
    /\ Len(s) >= off + len
    /\ IF len = 2
       THEN \/ s[off + 1] = "1" /\ s[off + 2] \in {"0", "1", "2"}
            \/ s[off + 1] = "0" /\ IsDigit(s[off + 2]) /\ s[off + 2] # "0"
       ELSE IsDigit(s[off + 1]) /\ s[off + 1] # "0"
\* %y : \d\d, matched at offset off
MatchY(s, off) ==
    Len(s) >= off + 2 /\ IsDigit(s[off + 1]) /\ IsDigit(s[off + 2])

\* the number a run of digit (or blank) characters spells
RECURSIVE DigitsToInt(_)
DigitsToInt(s) ==
    IF s = <<>> THEN 0
    ELSE LET c == s[Len(s)]
         IN  10 * DigitsToInt(SubSeq(s, 1, Len(s) - 1)) + (IF IsDigit(c) THEN DigitVal(c) ELSE 0)

\* The alternatives of the regular expression in the order its matcher
\* tries them: <<length of %d, length of %m>>.
StrptimeOrder == <<(<<2, 2>>), (<<2, 1>>), (<<1, 2>>), (<<1, 1>>)>>

\* alternative k matches a prefix of s
StrptimeHit(s, k) ==
    /\ MatchD(s, StrptimeOrder[k][1])
    /\ MatchM(s, StrptimeOrder[k][1], StrptimeOrder[k][2])
    /\ MatchY(s, StrptimeOrder[k][1] + StrptimeOrder[k][2])
\* the alternatives that match, and the one the matcher finds
StrptimeHits(s) == {k \in 1..4 : StrptimeHit(s, k)}
StrptimeFound(s) == CHOOSE i \in StrptimeHits(s) : \A j \in StrptimeHits(s) : i <= j

\* %y: 00..68 are 2000..2068, 69..99 are 1969..1999
Century(yy) == IF yy <= 68 THEN 2000 + yy ELSE 1900 + yy
DateOrNaT(y, m, d) == IF ValidYMD(y, m, d) THEN Some(Ymd(y, m, d)) ELSE Null

\* the date of s read with %d of length dl and %m of length ml; text left
\* over after the match ("unconverted data remains") and an impossible
\* calendar date are coerced to NaT
StrptimeRead(s, dl, ml) ==
    IF dl + ml + 2 # Len(s) THEN Null
    ELSE DateOrNaT(Century(DigitsToInt(SubSeq(s, dl + ml + 1, dl + ml + 2))),
                   DigitsToInt(SubSeq(s, dl + 1, dl + ml)),
                   DigitsToInt(SubSeq(s, 1, dl)))

\* pd.to_datetime(s, format='%d%m%y', errors='coerce') of one string
ToDatetimeDDMMYY(s) ==
    IF StrptimeHits(s) = {} THEN Null
    ELSE StrptimeRead(s, StrptimeOrder[StrptimeFound(s)][1], StrptimeOrder[StrptimeFound(s)][2])

----------------------------------------------------------------------------
(* Sample-type category *)

TokRm == <<"r", "m">>
TokRawMaterial == <<"r", "a", "w", " ", "m", "a", "t", "e", "r", "i", "a", "l">>
TokPg == <<"p", "g">>
TokPackaging == <<"p", "a", "c", "k", "a", "g", "i", "n", "g">>
SentinelMBP == <<"M", "B", "P">>

\* "rm" in t or "raw material" in t or "pg" in t or "packaging" in t,
\* for the lower-cased sample type t
IsRmPg(t) ==
    \/ Contains(t, TokRm)
    \/ Contains(t, TokRawMaterial)
    \/ Contains(t, TokPg)
    \/ Contains(t, TokPackaging)

----------------------------------------------------------------------------
(* data_processing.py: the row-wise lot parser and date unifier *)

\* parse_ddmmyy(s)
parse_ddmmyy(s) ==
    LET t == Strip(s)
    IN  IF Len(t) < 6 THEN Null ELSE ToDatetimeDDMMYY(Prefix(t, 6))

\* parts = [p.strip() for p in lot_number.split('-') if p.strip()]
RECURSIVE StripNonEmpty(_)
StripNonEmpty(pieces) ==
    IF pieces = <<>> THEN <<>>
    ELSE LET p == Strip(Head(pieces))
         IN  (IF p = <<>> THEN <<>> ELSE <<p>>) \o StripNonEmpty(Tail(pieces))
LotParts(lot_number) == StripNonEmpty(Split(lot_number))

\* variant of LotFields: the third part is read only when the first one parsed
LotFieldsCoupled(parts, rmpg) ==
    IF rmpg
    THEN [warehouse_date |-> IF Len(parts) >= 1 THEN parse_ddmmyy(parts[1]) ELSE Null,
          supplier_name  |-> IF Len(parts) >= 2 /\ parts[2] # SentinelMBP
                             THEN Some(parts[2]) ELSE Null,
          supplier_date  |-> IF Len(parts) >= 3 /\ NotNull(parse_ddmmyy(parts[1]))
                             THEN parse_ddmmyy(parts[3]) ELSE Null]
    ELSE [warehouse_date |-> Null,
          supplier_name  |-> Null,
          supplier_date  |-> IF Len(parts) >= 1 THEN parse_ddmmyy(parts[1]) ELSE Null]
\* lines 72-88 of process_lot_dates: the three fields from the parts
LotFields(parts, rmpg) ==
    IF rmpg
    THEN [warehouse_date |-> IF Len(parts) >= 1 THEN parse_ddmmyy(parts[1]) ELSE Null,
          supplier_name  |-> IF Len(parts) >= 2 /\ parts[2] # SentinelMBP
                             THEN Some(parts[2]) ELSE Null,
          supplier_date  |-> IF Len(parts) >= 3 THEN parse_ddmmyy(parts[3]) ELSE Null]
    ELSE [warehouse_date |-> Null,
          supplier_name  |-> Null,
          supplier_date  |-> IF Len(parts) >= 1 THEN parse_ddmmyy(parts[1]) ELSE Null]

\* process_lot_dates(row): the three parsed fields of one row
process_lot_dates(row) ==
    LotFields(LotParts(Strip(AsStr(row.lot))), IsRmPg(Lower(Strip(AsStr(row.stype)))))

\* variant of unify_date: a raw-material row falls back to the receipt date
unify_date_receipt_last(row, hasCol) ==
    IF IsRmPg(Lower(AsStr(row.stype)))
    THEN (IF NotNull(row.warehouse_date) THEN row.warehouse_date
          ELSE IF NotNull(row.supplier_date) THEN row.supplier_date
          ELSE IF hasCol THEN row.receipt ELSE Null)
    ELSE (IF hasCol /\ NotNull(row.receipt) THEN row.receipt ELSE row.supplier_date)
\* unify_date(row), for a row that carries the parsed fields; hasCol says
\* whether the row has a 'Receipt Date' key
unify_date(row, hasCol) ==
    IF IsRmPg(Lower(AsStr(row.stype)))
    THEN (IF NotNull(row.warehouse_date) THEN row.warehouse_date ELSE row.supplier_date)
    ELSE (IF hasCol /\ NotNull(row.receipt) THEN row.receipt ELSE row.supplier_date)

----------------------------------------------------------------------------
(* 'Receipt Date': a raw cell is missing or holds the integer yyyymmdd of
   the text the source sent, which need not be a date of the calendar *)

\* pd.to_datetime(cell, errors='coerce', dayfirst=True)
ToDatetimeReceipt(cell) ==
    IF IsNull(cell) THEN Null
    ELSE LET v == Get(cell)
             y == v \div 10000
             m == (v \div 100) % 100
             d == v % 100
         IN  IF ValidYMD(y, m, d) THEN cell ELSE Null

----------------------------------------------------------------------------
(* app.py: the vectorized lot parser and date unifier *)

\* lot_parts = lot_numbers.str.split('-', expand=True): row i, column k
\* (columns numbered from 1 here); Null where the row has fewer pieces
LotPieces(row) == Split(Strip(AsStr(row.lot)))
LotPartsColumns(df, idx) ==
    IF idx = {} THEN 0
    ELSE LET n(i) == Len(LotPieces(df[i]))
         IN  n(CHOOSE i \in idx : \A j \in idx : n(i) >= n(j))
LotPart(row, k) ==
    IF k <= Len(LotPieces(row)) THEN Some(LotPieces(row)[k]) ELSE Null

\* rm_pg_mask
RmPgMask(row) == IsRmPg(Lower(Strip(AsStr(row.stype))))

\* pd.to_datetime(part.str.strip().str[:6], format='%d%m%y', errors='coerce')
PartDate(part) ==
    IF IsNull(part) THEN Null ELSE ToDatetimeDDMMYY(Prefix(Strip(Get(part)), 6))

\* variant of VectorSupplierName: the category mask is not applied
VectorSupplierNameNoMask(row) ==
    IF LotPart(row, 2) # Some(SentinelMBP) THEN LotPart(row, 2) ELSE Null
\* valid_supplier_mask and the value it assigns
VectorSupplierName(row) ==
    IF RmPgMask(row) /\ LotPart(row, 2) # Some(SentinelMBP) THEN LotPart(row, 2) ELSE Null

\* lines 100-118: the lot columns of one row, given the number of columns
\* of lot_parts
VectorLotFields(row, ncols) ==
    [warehouse_date |-> IF ncols >= 1 /\ RmPgMask(row) THEN PartDate(LotPart(row, 1)) ELSE Null,
     supplier_name  |-> IF ncols >= 2 THEN VectorSupplierName(row) ELSE Null,
     supplier_date  |-> IF RmPgMask(row)
                        THEN (IF ncols >= 3 THEN PartDate(LotPart(row, 3)) ELSE Null)
                        ELSE (IF ncols >= 1 THEN PartDate(LotPart(row, 1)) ELSE Null)]

\* variants of VectorFinalDate: no fallback to supplier_date for raw
\* material; supplier_date preferred to the receipt date for the others
VectorFinalDateNoFallback(rmpg, warehouse_date, supplier_date, receipt) ==
    IF rmpg
    THEN warehouse_date
    ELSE (IF IsNull(receipt) THEN supplier_date ELSE receipt)
VectorFinalDateSupplierFirst(rmpg, warehouse_date, supplier_date, receipt) ==
    IF rmpg
    THEN (IF IsNull(warehouse_date) THEN supplier_date ELSE warehouse_date)
    ELSE (IF IsNull(supplier_date) THEN receipt ELSE supplier_date)
\* lines 120-131: final_date of one row from its columns
VectorFinalDate(rmpg, warehouse_date, supplier_date, receipt) ==
    IF rmpg
    THEN (IF IsNull(warehouse_date) THEN supplier_date ELSE warehouse_date)
    ELSE (IF IsNull(receipt) THEN supplier_date ELSE receipt)

\* one row of the frame parse_dates_vectorized returns
VectorRowWith(row, receipt, lot, hasCol) ==
    [stype |-> row.stype, lot |-> row.lot, dept |-> row.dept,
     receipt |-> receipt, result |-> row.result,
     warehouse_date |-> lot.warehouse_date,
     supplier_date |-> lot.supplier_date,
     supplier_name |-> lot.supplier_name,
     final_date |-> IF hasCol
                    THEN VectorFinalDate(RmPgMask(row), lot.warehouse_date,
                                         lot.supplier_date, receipt)
                    ELSE Null]
VectorRow(row, ncols, hasCol) ==
    VectorRowWith(row, IF hasCol THEN ToDatetimeReceipt(row.receipt) ELSE Null,
                  VectorLotFields(row, ncols), hasCol)

\* parse_dates_vectorized(df) over the rows idx of df: the derived columns
\* of every row, or raised = TRUE for the KeyError of df['Receipt Date']
parse_dates_vectorized(df, idx, hasCol) ==
    [raised |-> ~hasCol,
     rows   |-> Frame([i \in idx |-> VectorRow(df[i], LotPartsColumns(df, idx), hasCol)], idx)]

----------------------------------------------------------------------------
(* Numeric normalizer *)

FracDigits == 5
RECURSIVE Pow10(_)
Pow10(n) == IF n = 0 THEN 1 ELSE 10 * Pow10(n - 1)
Scale == Pow10(FracDigits)

\* variant of ReplaceComma: the commas are left as they are
ReplaceCommaNone(s) == s
\* .str.replace(',', '.')
ReplaceComma(s) == [i \in 1..Len(s) |-> IF s[i] = "," THEN "." ELSE s[i]]

\* the end of the run of digits of s that starts at position p (p - 1 when
\* s[p] is no digit)
RECURSIVE DigitRunEnd(_, _)
DigitRunEnd(s, p) ==
    IF p <= Len(s) /\ IsDigit(s[p]) THEN DigitRunEnd(s, p + 1) ELSE p - 1

\* .str.extract(r'(\d+\.?\d*)')[0]: the leftmost match, each part greedy;
\* the integer digits and the fraction digits of the match, or Null
ExtractNumber(s) ==
    LET ds == {i \in 1..Len(s) : IsDigit(s[i])}
    IN  IF ds = {} THEN Null
        ELSE LET p == CHOOSE i \in ds : \A j \in ds : i <= j
                 q == DigitRunEnd(s, p)
                 dot == q + 1 <= Len(s) /\ s[q + 1] = "."
                 r == IF dot THEN DigitRunEnd(s, q + 2) ELSE q
             IN  Some([int  |-> SubSeq(s, p, q),
                       frac |-> IF dot THEN SubSeq(s, q + 2, r) ELSE <<>>])

\* pd.to_numeric(text, errors='coerce') of an extracted match, scaled
ToNumeric(m) ==
    IF IsNull(m) THEN Null
    ELSE LET f == Get(m).frac
             padded == [i \in 1..FracDigits |-> IF i <= Len(f) THEN f[i] ELSE "0"]
         IN  Some(DigitsToInt(Get(m).int) * Scale + DigitsToInt(padded))

\* variant of NormalizeResult: a minus right before the match is kept, as
\* the pattern -?\d+\.?\d* would
NormalizeResultSigned(cell) ==
    LET s == ReplaceComma(AsStr(cell))
        v == ToNumeric(ExtractNumber(s))
        ds == {i \in 1..Len(s) : IsDigit(s[i])}
    IN  IF IsNull(v) THEN v
        ELSE LET p == CHOOSE i \in ds : \A j \in ds : i <= j
             IN  IF p > 1 /\ s[p - 1] = "-" THEN Some(0 - Get(v)) ELSE v
\* the whole normalizer of one cell
NormalizeResult(cell) == ToNumeric(ExtractNumber(ReplaceComma(AsStr(cell))))

\* str(x) of a float64 x >= 0 (what astype(str) gives for a numeric column):
\* positional with at least one decimal from 0.0001 on, scientific below
RECURSIVE IntText(_)
IntText(n) ==
    IF n < 10 THEN <<DigitChars[n + 1]>>
    ELSE IntText(n \div 10) \o <<DigitChars[(n % 10) + 1]>>
RECURSIVE StripZeros(_)
StripZeros(ds) ==
    IF ds # <<>> /\ ds[Len(ds)] = "0" THEN StripZeros(SubSeq(ds, 1, Len(ds) - 1)) ELSE ds
FracText(n) ==
    StripZeros([i \in 1..FracDigits |-> DigitChars[((n \div Pow10(FracDigits - i)) % 10) + 1]])
Positional(v) ==
    IntText(v \div Scale) \o <<".">>
        \o (IF FracText(v % Scale) = <<>> THEN <<"0">> ELSE FracText(v % Scale))
Mantissa(ds) == <<Head(ds)>> \o (IF Len(ds) > 1 THEN <<".">> \o Tail(ds) ELSE <<>>)
ExponentText(e) == IF e < 10 THEN <<"0">> \o IntText(e) ELSE IntText(e)
Scientific(v) ==
    Mantissa(StripZeros(IntText(v))) \o <<"e", "-">>
        \o ExponentText(FracDigits - Len(IntText(v)) + 1)
FormatFloat(v) ==
    IF v # 0 /\ v < Scale \div 10000 THEN Scientific(v) ELSE Positional(v)
StrNaN == <<"n", "a", "n">>
\* lines 143-148 of app.remove_outliers on a column that is numeric already
Renormalize(x) ==
    ToNumeric(ExtractNumber(ReplaceComma(IF IsNull(x) THEN StrNaN ELSE FormatFloat(Get(x)))))

----------------------------------------------------------------------------
(* Outlier bounds.  The factor is given in halves (FactorHalves = 3 is the
   default 1.5); every comparison is made exactly, on integers. *)

RECURSIVE SumOver(_, _)
SumOver(f, S) ==
    IF S = {} THEN 0
    ELSE LET i == CHOOSE j \in S : TRUE IN f[i] + SumOver(f, S \ {i})

RECURSIVE Gcd(_, _)
Gcd(a, b) == IF b = 0 THEN a ELSE Gcd(b, a % b)
RECURSIVE GcdOver(_, _)
GcdOver(f, S) ==
    IF S = {} THEN 0
    ELSE LET i == CHOOSE j \in S : TRUE IN Gcd(f[i], GcdOver(f, S \ {i}))

\* the rows of idx whose numeric value is present
PresentRows(col, idx) == {i \in idx : NotNull(col[i])}

\* the k-th smallest (k from 0) of the present values
Kth(col, P, k) ==
    LET v(i) == Get(col[i])
        i == CHOOSE j \in P :
                /\ Cardinality({h \in P : v(h) < v(j)}) <= k
                /\ Cardinality({h \in P : v(h) <= v(j)}) > k
    IN  v(i)

\* variant of Quantile4: interpolation 'lower', the value below the position
Quantile4Lower(col, P, num) == 4 * Kth(col, P, ((Cardinality(P) - 1) * num) \div 4)
\* Series.quantile(num/4) with linear interpolation, times 4
Quantile4(col, P, num) ==
    LET n  == Cardinality(P)
        h  == (n - 1) * num
        i  == h \div 4
        r  == h % 4
        lo == Kth(col, P, i)
        hi == IF r = 0 THEN lo ELSE Kth(col, P, i + 1)
    IN  4 * lo + r * (hi - lo)

\* lower_bound and upper_bound are NaN: no present value at all, or the
\* sample standard deviation (N-1 denominator) of a single value
BoundsNaN(P, method) ==
    \/ P = {}
    \/ method # "IQR" /\ Cardinality(P) < 2

\* IQR method: lower_bound and upper_bound, times 8
IqrBounds(col, P, fh) ==
    LET Q1  == Quantile4(col, P, 1)
        Q3  == Quantile4(col, P, 3)
        IQR == Q3 - Q1
    IN  [lower8 |-> 2 * Q1 - fh * IQR, upper8 |-> 2 * Q3 + fh * IQR]

\* std method: the count, sum and sum of squares that give mean() and
\* std(), taken in the unit g (the common divisor of the values)
StdStats(col, P) ==
    LET raw == [i \in P |-> Get(col[i])]
        c   == GcdOver(raw, P)
        g   == IF c = 0 THEN 1 ELSE c
    IN  [g  |-> g,
         n  |-> Cardinality(P),
         S  |-> SumOver([i \in P |-> raw[i] \div g], P),
         SS |-> SumOver([i \in P |-> (raw[i] \div g) * (raw[i] \div g)], P)]

\* what lines 127-139 (data_processing) and 155-165 (app) compute
Bounds(col, P, method, fh) ==
    [nan    |-> BoundsNaN(P, method),
     method |-> method,
     fh     |-> fh,
     iqr    |-> IF method = "IQR" /\ P # {} THEN IqrBounds(col, P, fh)
                ELSE [lower8 |-> 0, upper8 |-> 0],
     std    |-> IF method # "IQR" /\ Cardinality(P) >= 2 THEN StdStats(col, P)
                ELSE [g |-> 1, n |-> 0, S |-> 0, SS |-> 0]]

\* x is farther than factor * std from the mean, on the side of sign
StdOutside(b, x, sign) ==
    LET dev == b.std.n * (x \div b.std.g) - b.std.S
    IN  /\ sign * dev > 0
        /\ 4 * (b.std.n - 1) * dev * dev
             > b.fh * b.fh * b.std.n * (b.std.n * b.std.SS - b.std.S * b.std.S)

\* variant of BelowLower: x <= lower_bound
BelowLowerOrEqual(b, x) ==
    /\ ~b.nan
    /\ IF b.method = "IQR" THEN 8 * x <= b.iqr.lower8
       ELSE LET dev == b.std.n * (x \div b.std.g) - b.std.S
            IN  /\ dev <= 0
                /\ 4 * (b.std.n - 1) * dev * dev
                     >= b.fh * b.fh * b.std.n * (b.std.n * b.std.SS - b.std.S * b.std.S)
\* x < lower_bound and x > upper_bound: FALSE when the bound is NaN
BelowLower(b, x) ==
    /\ ~b.nan
    /\ IF b.method = "IQR" THEN 8 * x < b.iqr.lower8 ELSE StdOutside(b, x, 0 - 1)
AboveUpper(b, x) ==
    /\ ~b.nan
    /\ IF b.method = "IQR" THEN 8 * x > b.iqr.upper8 ELSE StdOutside(b, x, 1)
\* x >= lower_bound and x <= upper_bound: FALSE as well when the bound is NaN
AtLeastLower(b, x) == ~b.nan /\ ~BelowLower(b, x)
AtMostUpper(b, x) == ~b.nan /\ ~AboveUpper(b, x)

----------------------------------------------------------------------------
(* remove_outliers *)

\* df[(df[column] < lower_bound) | (df[column] > upper_bound)]
OutlierMask(col, idx, b) ==
    {i \in idx : NotNull(col[i]) /\ (BelowLower(b, Get(col[i])) \/ AboveUpper(b, Get(col[i])))}
\* df[(df[column] >= lower_bound) & (df[column] <= upper_bound)]
InlierMask(col, idx, b) ==
    {i \in idx : NotNull(col[i]) /\ AtLeastLower(b, Get(col[i])) /\ AtMostUpper(b, Get(col[i]))}

\* data_processing.remove_outliers(df, 'Actual result', method, factor) on a
\* frame whose column col is numeric already
dp_remove_outliers(col, idx, method, fh) ==
    IF idx = {} THEN [cleaned |-> idx, outliers |-> {}]
    ELSE LET b == Bounds(col, PresentRows(col, idx), method, fh)
         IN  [cleaned |-> InlierMask(col, idx, b), outliers |-> OutlierMask(col, idx, b)]

\* app.remove_outliers(df, 'Actual result', method, factor); col is the
\* column after the conversion of lines 143-148
app_remove_outliers(col, idx, method, fh) ==
    IF idx = {} \/ PresentRows(col, idx) = {} THEN [cleaned |-> idx, outliers |-> {}]
    ELSE LET b == Bounds(col, PresentRows(col, idx), method, fh)
         IN  [cleaned |-> idx \ OutlierMask(col, idx, b), outliers |-> OutlierMask(col, idx, b)]

----------------------------------------------------------------------------
(* The frames the two prepare_data build before they classify outliers *)

\* data_processing.prepare_data, lines 162-184: 'Receipt Date' converted,
\* the lot columns, final_date, then 'Actual result' made numeric
DpWithLot(row, receipt, lot) ==
    [stype |-> row.stype, lot |-> row.lot, dept |-> row.dept,
     receipt |-> receipt, result |-> row.result,
     warehouse_date |-> lot.warehouse_date,
     supplier_date |-> lot.supplier_date,
     supplier_name |-> lot.supplier_name]
DpWithFinal(row, final_date) ==
    [stype |-> row.stype, lot |-> row.lot, dept |-> row.dept,
     receipt |-> row.receipt,
     warehouse_date |-> row.warehouse_date,
     supplier_date |-> row.supplier_date,
     supplier_name |-> row.supplier_name,
     final_date |-> final_date,
     result |-> NormalizeResult(row.result)]
DpFrameStage2(row, hasCol) == DpWithFinal(row, unify_date(row, hasCol))
DpFrameRow(row, hasCol) ==
    DpFrameStage2(DpWithLot(row, IF hasCol THEN ToDatetimeReceipt(row.receipt) ELSE Null,
                            process_lot_dates(row)),
                  hasCol)
DpFrame(tbl, hasCol) ==
    Frame([i \in 1..Len(tbl) |-> DpFrameRow(tbl[i], hasCol)], 1..Len(tbl))

\* app.prepare_data, lines 185-186: the rows of the unwanted departments
\* are dropped, the others keep their index labels
ExcludedDepartments == {"SHE.MBP", "MFG.MBP"}
KeptRows(tbl) == {i \in 1..Len(tbl) : tbl[i].dept \notin ExcludedDepartments}

\* variant of AppNumericFrame: one cell without a number empties the column
AppNumericFrameAllOrNothing(rows) ==
    LET bad == \E i \in DOMAIN rows :
                  NotNull(rows[i].result) /\ IsNull(NormalizeResult(rows[i].result))
    IN  Frame([i \in DOMAIN rows |->
                  [rows[i] EXCEPT !.result = IF bad THEN Null ELSE NormalizeResult(@)]],
              DOMAIN rows)
\* app.remove_outliers, lines 143-148: the column is converted in place
AppNumericFrame(rows) ==
    Frame([i \in DOMAIN rows |-> [rows[i] EXCEPT !.result = NormalizeResult(@)]], DOMAIN rows)

\* df['Actual result']
ResultColumn(df) == [i \in DOMAIN df |-> df[i].result]

\* the pair (None, None)
Failed == [ok |-> FALSE, df |-> <<>>, cleaned |-> {}, outliers |-> {}]
Returned(df, parts) ==
    [ok |-> TRUE, df |-> df, cleaned |-> parts.cleaned, outliers |-> parts.outliers]

\* remove_outliers of either file on the finished frame
DpClassify(df, method, fh) ==
    Returned(df, dp_remove_outliers(ResultColumn(df), DOMAIN df, method, fh))
AppClassify(df, method, fh) ==
    Returned(df, app_remove_outliers(ResultColumn(df), DOMAIN df, method, fh))

\* data_processing.prepare_data() on the fetched table
dp_prepare_data(tbl, hasCol, method, fh) ==
    IF tbl = <<>> THEN Failed
    ELSE DpClassify(DpFrame(tbl, hasCol), method, fh)

\* app.prepare_data() on the fetched table
AppParsed(parsed, method, fh) ==
    IF parsed.raised THEN Failed
    ELSE AppClassify(AppNumericFrame(parsed.rows), method, fh)
app_prepare_data(tbl, hasCol, method, fh) ==
    IF tbl = <<>> THEN Failed
    ELSE AppParsed(parse_dates_vectorized(tbl, KeptRows(tbl), hasCol), method, fh)

\* parse_dates_vectorized and remove_outliers run once more on the frame df
\* they changed in place: the lot columns and final_date are computed again
\* from the same cells, 'Actual result' from the text of its numbers
AppRerunRow(row, ncols) ==
    [VectorRow(row, ncols, TRUE) EXCEPT !.result = Renormalize(@)]
AppRerunFrame(df) ==
    Frame([i \in DOMAIN df |-> AppRerunRow(df[i], LotPartsColumns(df, DOMAIN df))], DOMAIN df)
app_stages_again(df, method, fh) == AppClassify(AppRerunFrame(df), method, fh)

----------------------------------------------------------------------------
(* Inputs *)

MaxRows == 2

StRawMaterial == <<"R", "M", " ", "-", " ", "R", "a", "w", " ", "m", "a", "t", "e", "r", "i", "a", "l">>
StPackaging == <<" ", "P", "a", "c", "k", "a", "g", "i", "n", "g">>
StFinished == <<"F", "G">>

\* "020125-KIB08-291224-MBP"
LotFull == <<"0", "2", "0", "1", "2", "5", "-", "K", "I", "B", "0", "8", "-", "2", "9", "1", "2", "2", "4", "-", "M", "B", "P">>
\* "020125-MBP"
LotSentinel == <<"0", "2", "0", "1", "2", "5", "-", "M", "B", "P">>
\* "020125- MBP"
LotSpacedSentinel == <<"0", "2", "0", "1", "2", "5", "-", " ", "M", "B", "P">>
\* "-020125-KIB08"
LotLeadingHyphen == <<"-", "0", "2", "0", "1", "2", "5", "-", "K", "I", "B", "0", "8">>
\* "020125--291224"
LotDoubleHyphen == <<"0", "2", "0", "1", "2", "5", "-", "-", "2", "9", "1", "2", "2", "4">>
\* "310225"
LotBadCalendar == <<"3", "1", "0", "2", "2", "5">>
\* "2125"
LotShort == <<"2", "1", "2", "5">>
\* "0201259-KIB08"
LotLongSegment == <<"0", "2", "0", "1", "2", "5", "9", "-", "K", "I", "B", "0", "8">>
\* "02x125-KIB08-291224"
LotBadFirst == <<"0", "2", "x", "1", "2", "5", "-", "K", "I", "B", "0", "8", "-", "2", "9", "1", "2", "2", "4">>
\* "020125"
LotBare == <<"0", "2", "0", "1", "2", "5">>

\* 'Receipt Date' cells: 2025-03-10, the impossible 2025-02-30, missing
ReceiptGood == Some(20250310)
ReceiptBad == Some(20250230)

ResFive == <<"5">>
ResOne == <<"1">>
ResComma == <<"2", ",", "5", " ", "m", "g">>
ResText == <<"a", "b", "c">>

Row(st, lot, rc, res, dept) ==
    [stype |-> st, lot |-> lot, receipt |-> rc, result |-> res, dept |-> dept]

\* the lot numbers under the raw-material category, with the results spread
\* over them
RawMaterialRows ==
    {Row(Some(StRawMaterial), Some(lot), ReceiptGood, Some(ResFive), "QA") :
        lot \in {LotFull, LotSpacedSentinel, LotLeadingHyphen, LotDoubleHyphen,
                 LotShort, LotBare}}
    \cup {Row(Some(StRawMaterial), Some(LotSentinel), ReceiptGood, Some(ResOne), "QA"),
          Row(Some(StRawMaterial), Some(LotLongSegment), ReceiptGood, Some(ResComma), "QA"),
          Row(Some(StRawMaterial), Some(LotBadCalendar), ReceiptGood, Some(ResText), "QA")}
\* the other category: several segments, a shifted, a short and a bare one,
\* and a record with neither lot number nor result
FinishedRows ==
    {Row(Some(StFinished), Some(lot), ReceiptGood, Some(ResFive), "QA") :
        lot \in {LotFull, LotLeadingHyphen, LotShort, LotBare}}
    \cup {Row(Some(StFinished), Null, ReceiptGood, Null, "QA")}
\* the receipt date missing or unparseable
DateRows ==
    {Row(Some(StRawMaterial), Some(LotBadFirst), Null, Some(ResFive), "QA"),
     Row(Some(StFinished), Some(LotBare), Null, Some(ResOne), "QA"),
     Row(Some(StFinished), Some(LotBare), ReceiptBad, Some(ResFive), "QA")}
\* the other spelling of the category, an unwanted department
OtherRows ==
    {Row(Some(StPackaging), Some(LotFull), Null, Some(ResOne), "QA"),
     Row(Some(StFinished), Some(LotBare), ReceiptGood, Some(ResOne), "SHE.MBP")}
Rows == RawMaterialRows \cup FinishedRows \cup DateRows \cup OtherRows

Methods == {"IQR", "std"}
FactorHalves == {0, 3}
DefaultArgs == [method |-> "IQR", fh |-> 3]
NoArgs == [method |-> "", fh |-> 0]

----------------------------------------------------------------------------
(* The Dash app before anything ran: nothing cached, no call made, the
   layout as app.layout declares it *)

\* dcc.Store(id="filtered-df-store"), dcc.Store(id="filtered-outliers-store")
NoStores == [main |-> Null, outl |-> Null]
\* dcc.Tabs(id="main-tabs", value="tab-timeseries", ...)
Tabs == {"tab-timeseries", "tab-spc", "tab-box", "tab-dist", "tab-pareto"}
FirstTab == "tab-timeseries"
\* html.Div(id="tabs-content"): no children
Blank == [kind |-> "blank", tab |-> "", main |-> {}, outl |-> {}]
AppAtStart ==
    /\ cache = <<>>
    /\ log = <<>>
    /\ stores = NoStores
    /\ tab = FirstTab
    /\ shown = Blank

----------------------------------------------------------------------------
(* The state machine *)

Init ==
    /\ table = <<>>
    /\ hasReceipt \in BOOLEAN
    /\ op = "none"
    /\ args = NoArgs
    /\ out = Failed
    /\ AppAtStart

\* get_bigquery_data(): one more row of the table it hands over; a table
\* without the 'Receipt Date' column has no receipt cells
FetchRow ==
    /\ op = "none"
    /\ Len(table) < MaxRows
    /\ \E r \in Rows :
          /\ hasReceipt \/ IsNull(r.receipt)
          /\ table' = Append(table, r)
    /\ UNCHANGED <<cache, log, stores, tab, shown, hasReceipt, op, args, out>>

\* data_processing.prepare_data()
DpPrepareData ==
    /\ op = "none"
    /\ op' = "dp.prepare_data"
    /\ args' = DefaultArgs
    /\ out' = dp_prepare_data(table, hasReceipt, DefaultArgs.method, DefaultArgs.fh)
    /\ UNCHANGED <<cache, log, stores, tab, shown, table, hasReceipt>>

\* app.prepare_data()
AppPrepareData ==
    /\ op = "none"
    /\ op' = "app.prepare_data"
    /\ args' = DefaultArgs
    /\ out' = app_prepare_data(table, hasReceipt, DefaultArgs.method, DefaultArgs.fh)
    /\ UNCHANGED <<cache, log, stores, tab, shown, table, hasReceipt>>

\* data_processing.remove_outliers(df, 'Actual result', method, factor) on
\* the frame prepare_data built
DpRemoveOutliers ==
    /\ op = "none"
    /\ \E df \in {DpFrame(table, hasReceipt)} :
          \E m \in Methods, fh \in FactorHalves :
             /\ args' = [method |-> m, fh |-> fh]
             /\ out' = DpClassify(df, m, fh)
    /\ op' = "dp.remove_outliers"
    /\ UNCHANGED <<cache, log, stores, tab, shown, table, hasReceipt>>

\* app.remove_outliers(df, 'Actual result', method, factor) on the frame
\* parse_dates_vectorized returned
AppRemoveOutliers ==
    /\ op = "none"
    /\ hasReceipt
    /\ \E df \in {parse_dates_vectorized(table, KeptRows(table), hasReceipt).rows} :
          \E m \in Methods, fh \in FactorHalves :
             /\ args' = [method |-> m, fh |-> fh]
             /\ out' = AppClassify(AppNumericFrame(df), m, fh)
    /\ op' = "app.remove_outliers"
    /\ UNCHANGED <<cache, log, stores, tab, shown, table, hasReceipt>>

Next ==
    \/ FetchRow
    \/ DpPrepareData
    \/ AppPrepareData
    \/ DpRemoveOutliers
    \/ AppRemoveOutliers

Spec == Init /\ [][Next]_vars

----------------------------------------------------------------------------
(* The numeric normalizer alone: one-row tables whose 'Actual result' is
   any short text over NormAlphabet, one of the longer texts, or missing *)

MaxLen == 3
NormAlphabet == {"0", "1", ",", ".", " ", "a", "-"}
NormTexts == UNION {[1..n -> NormAlphabet] : n \in 0..MaxLen}
\* "12,5 mg", "< 0,01", "abc"
ResTwelveHalfMg == <<"1", "2", ",", "5", " ", "m", "g">>
ResBelowHundredth == <<"<", " ", "0", ",", "0", "1">>
\* "-5", "-0,3"
ResMinusFive == <<"-", "5">>
ResMinusFraction == <<"-", "0", ",", "3">>
NormCells == {Some(t) : t \in NormTexts \cup {ResTwelveHalfMg, ResBelowHundredth, ResText,
                                              ResMinusFive, ResMinusFraction}}
                 \cup {Null}

NormInit ==
    /\ table \in {<<Row(Some(StFinished), Null, Null, cell, "QA")>> : cell \in NormCells}
    /\ hasReceipt = TRUE
    /\ op = "none"
    /\ args = NoArgs
    /\ out = Failed
    /\ AppAtStart
\* the conversion of the column alone: lines 178-184 of
\* data_processing.prepare_data, lines 143-148 of app.remove_outliers
NormalizeColumn ==
    /\ op = "none"
    /\ op' = "normalize"
    /\ out' = Returned(AppNumericFrame(table), [cleaned |-> {}, outliers |-> {}])
    /\ UNCHANGED <<cache, log, stores, tab, shown, table, hasReceipt, args>>
NormNext == NormalizeColumn
NormSpec == NormInit /\ [][NormNext]_vars

----------------------------------------------------------------------------
(* The pipeline run a second time on the same table *)

\* "0,00005"
ResTiny == <<"0", ",", "0", "0", "0", "0", "5">>
RerunRows ==
    {Row(Some(StFinished), Some(LotBare), ReceiptGood, Some(ResTiny), "QA"),
     Row(Some(StFinished), Some(LotBare), ReceiptGood, Some(ResFive), "QA"),
     Row(Some(StRawMaterial), Some(LotFull), ReceiptGood, Some(ResComma), "QA"),
     Row(Some(StFinished), Null, ReceiptGood, Null, "QA"),
     Row(Some(StRawMaterial), Some(LotSpacedSentinel), ReceiptBad, Some(ResOne), "QA"),
     Row(Some(StFinished), Some(LotShort), Null, Some(ResText), "QA")}

RerunInit ==
    /\ table \in UNION {[1..n -> RerunRows] : n \in 1..MaxRows}
    /\ hasReceipt = TRUE
    /\ op = "none"
    /\ args = NoArgs
    /\ out = Failed
    /\ AppAtStart

\* data_processing.prepare_data() called again: the same table is fetched
DpPrepareDataAgain ==
    /\ op = "dp.prepare_data"
    /\ op' = "dp.prepare_data.again"
    /\ out' = dp_prepare_data(table, hasReceipt, args.method, args.fh)
    /\ UNCHANGED <<cache, log, stores, tab, shown, table, hasReceipt, args>>

\* the stages of app.prepare_data (lines 189 and 192) called again on the
\* frame the first run was given
AppStagesAgain ==
    /\ op = "app.prepare_data"
    /\ out.ok
    /\ op' = "app.stages.again"
    /\ out' = app_stages_again(out.df, args.method, args.fh)
    /\ UNCHANGED <<cache, log, stores, tab, shown, table, hasReceipt, args>>

RerunNext == DpPrepareData \/ AppPrepareData \/ DpPrepareDataAgain \/ AppStagesAgain
RerunSpec == RerunInit /\ [][RerunNext]_vars

----------------------------------------------------------------------------
(* prepare_data step by step: op is the position of the run ("dp@lot": the
   lot columns have just been added), out.df the frame as it stands; a
   column exists in a row from the stage that creates it *)

\* the frame a run is still working on: nothing has been returned
Working(df) == [ok |-> FALSE, df |-> df, cleaned |-> {}, outliers |-> {}]

\* variant of NoData: only a failed fetch is detected
NoDataNoneOnly(position, tbl) == position \in {"dp@fetch.none", "app@fetch.none"}
\* 'df is None or df.empty' after get_bigquery_data() returned
NoData(position, tbl) ==
    \/ position \in {"dp@fetch.none", "app@fetch.none"}
    \/ tbl = <<>>

\* data_processing.prepare_data, lines 163-172: 'Receipt Date' converted and
\* the three lot columns joined to the frame
DpLotFrame(tbl, hasCol) ==
    Frame([i \in 1..Len(tbl) |->
              DpWithLot(tbl[i], IF hasCol THEN ToDatetimeReceipt(tbl[i].receipt) ELSE Null,
                        process_lot_dates(tbl[i]))],
          1..Len(tbl))
\* a row with its final_date column, 'Actual result' as fetched
WithDate(row, final_date) ==
    [stype |-> row.stype, lot |-> row.lot, dept |-> row.dept,
     receipt |-> row.receipt, result |-> row.result,
     warehouse_date |-> row.warehouse_date,
     supplier_date |-> row.supplier_date,
     supplier_name |-> row.supplier_name,
     final_date |-> final_date]
\* line 175: df['final_date'] = df.apply(unify_date, axis=1)
DpDateFrame(df, hasCol) ==
    Frame([i \in DOMAIN df |-> WithDate(df[i], unify_date(df[i], hasCol))], DOMAIN df)
\* variant of DpNumericFrame: only the first record is normalized
DpNumericFramePartial(df) ==
    Frame([i \in DOMAIN df |->
              [df[i] EXCEPT !.result = IF i = 1 THEN NormalizeResult(@) ELSE Null]],
          DOMAIN df)
\* lines 178-184: 'Actual result' made numeric
DpNumericFrame(df) ==
    Frame([i \in DOMAIN df |-> [df[i] EXCEPT !.result = NormalizeResult(@)]], DOMAIN df)

\* app.prepare_data, lines 185-186 and parse_dates_vectorized, lines 78-118
AppLotFrame(tbl, idx, hasCol) ==
    Frame([i \in idx |->
              DpWithLot(tbl[i], IF hasCol THEN ToDatetimeReceipt(tbl[i].receipt) ELSE Null,
                        VectorLotFields(tbl[i], LotPartsColumns(tbl, idx)))],
          idx)
\* parse_dates_vectorized, lines 121-131
AppDateFrame(df) ==
    Frame([i \in DOMAIN df |->
              WithDate(df[i], VectorFinalDate(RmPgMask(df[i]), df[i].warehouse_date,
                                              df[i].supplier_date, df[i].receipt))],
          DOMAIN df)

StageInit ==
    /\ table \in UNION {[1..n -> RerunRows] : n \in 0..MaxRows}
    /\ hasReceipt \in BOOLEAN
    /\ hasReceipt \/ \A i \in 1..Len(table) : IsNull(table[i].receipt)
    /\ op = "none"
    /\ args = NoArgs
    /\ out = Failed
    /\ AppAtStart

\* line 157: df = get_bigquery_data(), which returns the table or None
DpFetch ==
    /\ op = "none"
    /\ op' \in {"dp@fetched", "dp@fetch.none"}
    /\ args' = DefaultArgs
    /\ out' = Working(<<>>)
    /\ UNCHANGED <<cache, log, stores, tab, shown, table, hasReceipt>>
\* lines 158-160
DpNoData ==
    /\ op \in {"dp@fetched", "dp@fetch.none"}
    /\ NoData(op, table)
    /\ op' = "dp.prepare_data"
    /\ out' = Failed
    /\ UNCHANGED <<cache, log, stores, tab, shown, table, hasReceipt, args>>
DpLotStage ==
    /\ op \in {"dp@fetched", "dp@fetch.none"}
    /\ ~NoData(op, table)
    /\ op' = "dp@lot"
    /\ out' = Working(DpLotFrame(table, hasReceipt))
    /\ UNCHANGED <<cache, log, stores, tab, shown, table, hasReceipt, args>>
DpDateStage ==
    /\ op = "dp@lot"
    /\ op' = "dp@date"
    /\ out' = Working(DpDateFrame(out.df, hasReceipt))
    /\ UNCHANGED <<cache, log, stores, tab, shown, table, hasReceipt, args>>
DpNumericStage ==
    /\ op = "dp@date"
    /\ op' = "dp@numeric"
    /\ out' = Working(DpNumericFrame(out.df))
    /\ UNCHANGED <<cache, log, stores, tab, shown, table, hasReceipt, args>>
\* lines 187-189
DpClassifyStage ==
    /\ op = "dp@numeric"
    /\ op' = "dp.prepare_data"
    /\ out' = DpClassify(out.df, args.method, args.fh)
    /\ UNCHANGED <<cache, log, stores, tab, shown, table, hasReceipt, args>>

\* app.prepare_data, line 180
AppFetch ==
    /\ op = "none"
    /\ op' \in {"app@fetched", "app@fetch.none"}
    /\ args' = DefaultArgs
    /\ out' = Working(<<>>)
    /\ UNCHANGED <<cache, log, stores, tab, shown, table, hasReceipt>>
\* lines 181-182
AppNoData ==
    /\ op \in {"app@fetched", "app@fetch.none"}
    /\ NoData(op, table)
    /\ op' = "app.prepare_data"
    /\ out' = Failed
    /\ UNCHANGED <<cache, log, stores, tab, shown, table, hasReceipt, args>>
AppLotStage ==
    /\ op \in {"app@fetched", "app@fetch.none"}
    /\ ~NoData(op, table)
    /\ op' = "app@lot"
    /\ out' = Working(AppLotFrame(table, KeptRows(table), hasReceipt))
    /\ UNCHANGED <<cache, log, stores, tab, shown, table, hasReceipt, args>>
\* lines 121-131; without the 'Receipt Date' column line 129 raises and
\* prepare_data returns the failure pair (lines 197-199)
AppDateStage ==
    /\ op = "app@lot"
    /\ IF hasReceipt
       THEN op' = "app@date" /\ out' = Working(AppDateFrame(out.df))
       ELSE op' = "app.prepare_data" /\ out' = Failed
    /\ UNCHANGED <<cache, log, stores, tab, shown, table, hasReceipt, args>>
\* remove_outliers, lines 143-148
AppNumericStage ==
    /\ op = "app@date"
    /\ op' = "app@numeric"
    /\ out' = Working(AppNumericFrame(out.df))
    /\ UNCHANGED <<cache, log, stores, tab, shown, table, hasReceipt, args>>
\* remove_outliers, lines 150-169
AppClassifyStage ==
    /\ op = "app@numeric"
    /\ op' = "app.prepare_data"
    /\ out' = AppClassify(out.df, args.method, args.fh)
    /\ UNCHANGED <<cache, log, stores, tab, shown, table, hasReceipt, args>>

StageNext ==
    \/ DpFetch
    \/ DpNoData
    \/ DpLotStage
    \/ DpDateStage
    \/ DpNumericStage
    \/ DpClassifyStage
    \/ AppFetch
    \/ AppNoData
    \/ AppLotStage
    \/ AppDateStage
    \/ AppNumericStage
    \/ AppClassifyStage

StageSpec == StageInit /\ [][StageNext]_vars

----------------------------------------------------------------------------
(* remove_outliers on a column of ten results: 1, 2, ..., 9 and 100, and the
   columns that differ from it in one cell *)

ExampleRow(cell) == Row(Some(StFinished), Some(LotBare), ReceiptGood, cell, "QA")
ExampleTable ==
    <<ExampleRow(Some(<<"1">>)),
      ExampleRow(Some(<<"2">>)),
      ExampleRow(Some(<<"3">>)),
      ExampleRow(Some(<<"4">>)),
      ExampleRow(Some(<<"5">>)),
      ExampleRow(Some(<<"6">>)),
      ExampleRow(Some(<<"7">>)),
      ExampleRow(Some(<<"8">>)),
      ExampleRow(Some(<<"9">>)),
      ExampleRow(Some(<<"1", "0", "0">>))>>
ExampleOthers == {Some(ResFive), Some(<<"1", "0", "0">>), Some(ResText), Null}

IqrInit ==
    /\ table \in {ExampleTable}
                 \cup {[ExampleTable EXCEPT ![i] = ExampleRow(c)] :
                          i \in DOMAIN ExampleTable, c \in ExampleOthers}
    /\ hasReceipt = TRUE
    /\ op = "none"
    /\ args = NoArgs
    /\ out = Failed
    /\ AppAtStart

IqrNext == DpRemoveOutliers \/ AppRemoveOutliers \/ DpPrepareData \/ AppPrepareData
IqrSpec == IqrInit /\ [][IqrNext]_vars

----------------------------------------------------------------------------
(* The dashboards' filters on the two tables prepare_data returned: the main
   table is the inlier table.  Of the four multiselect filters the one on
   'Sample Type' is modelled; the others have the same form on columns the
   model does not carry. *)

\* variant of InDateRange: a missing date passes
InDateRangeOrAbsent(d, s, e) == IsNull(d) \/ (Get(d) >= s /\ Get(d) <= e)
\* (final_date >= start_date) & (final_date <= end_date): a comparison with
\* NaT is False
InDateRange(d, s, e) == NotNull(d) /\ Get(d) >= s /\ Get(d) <= e
\* 'if vals: mask &= column.isin(vals)': an empty selection keeps every row
Selected(vals, v) == vals = {} \/ v \in vals

\* app.filter_data: the rows of the main table and of the outlier table it
\* returns; both None when the main table is empty (lines 319-320)
app_filter_data(df, main, outl, sample_vals, start_date, end_date) ==
    IF main = {} THEN [cleaned |-> {}, outliers |-> {}]
    ELSE LET ranged == NotNull(start_date) /\ NotNull(end_date)
             keep(i) == /\ Selected(sample_vals, df[i].stype)
                        /\ ranged => InDateRange(df[i].final_date, Get(start_date), Get(end_date))
         IN  [cleaned |-> {i \in main : keep(i)}, outliers |-> {i \in outl : keep(i)}]

\* main.py, lines 59-89: the sidebar selections on each table, then the date
\* range, asked for only when a filtered main row has a valid final_date and
\* applied only when the widget holds two dates
MainAvailable(df, main, sel) ==
    {i \in main : Selected(sel, df[i].stype) /\ NotNull(df[i].final_date)}
main_filter(df, main, outl, sel_main, sel_out, start_date, end_date) ==
    LET ranged == MainAvailable(df, main, sel_main) # {} /\ NotNull(end_date)
        keep(i, sel) == /\ Selected(sel, df[i].stype)
                        /\ ranged => InDateRange(df[i].final_date, Get(start_date), Get(end_date))
    IN  [cleaned |-> {i \in main : keep(i, sel_main)},
         outliers |-> {i \in outl : keep(i, sel_out)}]

FilterLen == 4
\* "100"
ResHundred == <<"1", "0", "0">>
FilterRows ==
    {Row(Some(StFinished), Some(LotBare), ReceiptGood, Some(ResOne), "QA"),
     Row(Some(StFinished), Null, Null, Some(ResOne), "QA"),
     Row(Some(StFinished), Null, Null, Some(ResHundred), "QA"),
     Row(Some(StRawMaterial), Some(LotFull), ReceiptGood, Some(ResHundred), "QA")}
SampleChoices == {{}, {Some(StFinished)}, {Some(StRawMaterial)}}
StartChoices == {Null, Some(20250101)}
EndChoices == {Null, Some(20250131), Some(20251231)}

FilterInit ==
    /\ table \in [1..FilterLen -> FilterRows]
    /\ hasReceipt = TRUE
    /\ op = "none"
    /\ args = NoArgs
    /\ out = Failed
    /\ AppAtStart

\* the callback filter_data of app.py on the tables loaded at start-up
AppFilterData ==
    /\ op = "app.prepare_data"
    /\ out.ok
    /\ \E sample_vals \in SampleChoices, start_date \in StartChoices, end_date \in EndChoices :
          \E f \in {app_filter_data(out.df, out.cleaned, out.outliers,
                                    sample_vals, start_date, end_date)} :
             /\ args' = [method |-> args.method, fh |-> args.fh,
                         sample_vals |-> sample_vals,
                         start_date |-> start_date, end_date |-> end_date]
             /\ out' = [out EXCEPT !.cleaned = f.cleaned, !.outliers = f.outliers]
    /\ op' = "app.filter_data"
    /\ UNCHANGED <<cache, log, stores, tab, shown, table, hasReceipt>>

\* the sidebar of main.py on the tables load_data returned (the script stops
\* at line 24-26 when the main table is missing or empty); args records the
\* date range that was applied
MainFilter ==
    /\ op = "dp.prepare_data"
    /\ out.ok
    /\ out.cleaned # {}
    /\ \E sel_main \in SampleChoices, sel_out \in SampleChoices,
          start_date \in StartChoices \ {Null}, end_date \in EndChoices :
          \E f \in {main_filter(out.df, out.cleaned, out.outliers,
                                sel_main, sel_out, start_date, end_date)} :
             \E ranged \in {MainAvailable(out.df, out.cleaned, sel_main) # {}
                               /\ NotNull(end_date)} :
                /\ args' = [method |-> args.method, fh |-> args.fh,
                            sample_vals |-> sel_main,
                            start_date |-> IF ranged THEN start_date ELSE Null,
                            end_date |-> IF ranged THEN end_date ELSE Null]
                /\ out' = [out EXCEPT !.cleaned = f.cleaned, !.outliers = f.outliers]
    /\ op' = "main.filter"
    /\ UNCHANGED <<cache, log, stores, tab, shown, table, hasReceipt>>

FilterNext == DpPrepareData \/ AppPrepareData \/ AppFilterData \/ MainFilter
FilterSpec == FilterInit /\ [][FilterNext]_vars

----------------------------------------------------------------------------
(* app.prepare_data behind @lru_cache(maxsize=2): calls with (date_limit,
   limit), each a hit on the cache or a run of the function body, whose
   get_bigquery_data returns the table or fails *)

MaxCalls == 4
\* maxsize of the decorator
CacheMaxSize == 2
\* (date_limit, limit): the defaults, 30 days, 1000 records
ArgPairs == {<<90, Null>>, <<30, Null>>, <<90, Some(1000)>>}

CacheHas(c, key) == \E i \in 1..Len(c) : c[i].key = key
CacheGet(c, key) == c[CHOOSE i \in 1..Len(c) : c[i].key = key].value
\* a hit makes the entry the most recently used
CacheTouch(c, key) ==
    LET Other(e) == e.key # key
    IN  SelectSeq(c, Other) \o <<[key |-> key, value |-> CacheGet(c, key)]>>
\* variant of CachePut: the failure pair is not stored
CachePutUnlessFailed(c, key, value) ==
    IF value = Failed THEN c
    ELSE Append(IF Len(c) >= CacheMaxSize THEN Tail(c) ELSE c,
                [key |-> key, value |-> value])
\* a miss stores what the body returned, the least recently used entry
\* making room when the cache is full
CachePut(c, key, value) ==
    Append(IF Len(c) >= CacheMaxSize THEN Tail(c) ELSE c,
           [key |-> key, value |-> value])

\* the body of prepare_data, lines 177-199, when get_bigquery_data answers
\* (up) or fails
PrepareBody(up) ==
    IF up THEN app_prepare_data(table, hasReceipt, DefaultArgs.method, DefaultArgs.fh)
    ELSE Failed

CacheInit ==
    /\ table \in UNION {[1..n -> RerunRows] : n \in 0..1}
    /\ hasReceipt = TRUE
    /\ op = "none"
    /\ args = NoArgs
    /\ out = Failed
    /\ AppAtStart

\* prepare_data(date_limit, limit)
AppPrepareDataCached ==
    /\ Len(log) < MaxCalls
    /\ \E key \in ArgPairs :
          IF CacheHas(cache, key)
          THEN /\ out' = CacheGet(cache, key)
               /\ cache' = CacheTouch(cache, key)
               /\ log' = Append(log, [key |-> key, out |-> CacheGet(cache, key),
                                      fetched |-> FALSE])
          ELSE \E up \in BOOLEAN :
                  /\ out' = PrepareBody(up)
                  /\ cache' = CachePut(cache, key, PrepareBody(up))
                  /\ log' = Append(log, [key |-> key, out |-> PrepareBody(up),
                                         fetched |-> TRUE])
    /\ op' = "app.prepare_data"
    /\ args' = DefaultArgs
    /\ UNCHANGED <<table, hasReceipt, stores, tab, shown>>

CacheNext == AppPrepareDataCached
CacheSpec == CacheInit /\ [][CacheNext]_vars

----------------------------------------------------------------------------
(* The Dash page: filter_data fills the two stores, render_tab_content fills
   'tabs-content'.  A store holds the rows of the table whose JSON it
   keeps; the content of a tab is recorded as the tab it draws and the rows it
   draws them from. *)

\* df["final_date"].min() and .max(), the first values of the date picker
FinalDates(df, main) == {Get(df[i].final_date) : i \in {j \in main : NotNull(df[j].final_date)}}
FinalDateMin(df, main) ==
    IF FinalDates(df, main) = {} THEN Null
    ELSE Some(CHOOSE d \in FinalDates(df, main) : \A e \in FinalDates(df, main) : d <= e)
FinalDateMax(df, main) ==
    IF FinalDates(df, main) = {} THEN Null
    ELSE Some(CHOOSE d \in FinalDates(df, main) : \A e \in FinalDates(df, main) : d >= e)

\* what filter_data returns for the stores: None for both when the main
\* table is empty, None for the outliers when none is left (lines 319-320,
\* 379-387)
FilterStores(df, main, outl, sample_vals, start_date, end_date) ==
    IF main = {} THEN NoStores
    ELSE LET f == app_filter_data(df, main, outl, sample_vals, start_date, end_date)
         IN  [main |-> Some(f.cleaned),
              outl |-> IF f.outliers = {} THEN Null ELSE Some(f.outliers)]

\* render_tab_content(tab, filtered_main_json, filtered_out_json): only the
\* time series draws the outliers
NoDataAvailable == [kind |-> "No data available.", tab |-> "", main |-> {}, outl |-> {}]
TabContent(t, st) ==
    IF IsNull(st.main) THEN NoDataAvailable
    ELSE [kind |-> "chart", tab |-> t, main |-> Get(st.main),
          outl |-> IF t = "tab-timeseries" /\ NotNull(st.outl) THEN Get(st.outl) ELSE {}]

\* variant of ContentAfterStores: the stores are inputs of render_tab_content
ContentAfterStoresRerendered(current, t, st) == TabContent(t, st)
\* 'tabs-content' after the stores changed: they are State of
\* render_tab_content, not Input, so the callback is not triggered
ContentAfterStores(current, t, st) == current

DashInit ==
    /\ table \in UNION {[1..n -> FilterRows] : n \in 1..MaxRows}
    /\ hasReceipt = TRUE
    /\ op = "none"
    /\ args = NoArgs
    /\ out = Failed
    /\ AppAtStart

\* the page is opened: both callbacks are fired with the values of the
\* layout, render_tab_content with the stores still empty, filter_data with
\* no selection and the date picker's first range
DashLoad ==
    /\ op = "app.prepare_data"
    /\ out.ok
    /\ op' = "dash.load"
    /\ shown' = TabContent(tab, stores)
    /\ stores' = FilterStores(out.df, out.cleaned, out.outliers, {},
                              FinalDateMin(out.df, out.cleaned),
                              FinalDateMax(out.df, out.cleaned))
    /\ UNCHANGED <<table, hasReceipt, args, out, cache, log, tab>>

\* a filter is changed: filter_data runs and updates the stores
DashFilterData ==
    /\ op \in {"dash.load", "dash.filter_data", "dash.render_tab_content"}
    /\ \E sample_vals \in SampleChoices, start_date \in StartChoices, end_date \in EndChoices :
          \E st \in {FilterStores(out.df, out.cleaned, out.outliers,
                                  sample_vals, start_date, end_date)} :
             /\ stores' = st
             /\ shown' = ContentAfterStores(shown, tab, st)
    /\ op' = "dash.filter_data"
    /\ UNCHANGED <<table, hasReceipt, args, out, cache, log, tab>>

\* another tab is selected: render_tab_content runs with the stores as they
\* are
DashTabChange ==
    /\ op \in {"dash.load", "dash.filter_data", "dash.render_tab_content"}
    /\ \E t \in Tabs \ {tab} :
          /\ tab' = t
          /\ shown' = TabContent(t, stores)
    /\ op' = "dash.render_tab_content"
    /\ UNCHANGED <<table, hasReceipt, args, out, cache, log, stores>>

DashNext == AppPrepareData \/ DashLoad \/ DashFilterData \/ DashTabChange
DashSpec == DashInit /\ [][DashNext]_vars

----------------------------------------------------------------------------
(* Vocabulary of the properties *)

DpOps == {"dp.prepare_data", "dp.remove_outliers"}
AppOps == {"app.prepare_data", "app.remove_outliers"}
\* an operation has run and returned its two tables
Ran == op # "none" /\ out.ok
OutRows == DOMAIN out.df

\* the record is of the raw-material/packaging category
RowRmPg(r) == IsRmPg(Lower(AsStr(r.stype)))
\* the segments of the record's lot number: the non-empty trimmed pieces
Segments(r) == LotParts(Strip(AsStr(r.lot)))
SegmentOf(parts, k) == IF k <= Len(parts) THEN Some(parts[k]) ELSE Null
Segment(r, k) == SegmentOf(Segments(r), k)
FirstThree(parts) == <<SegmentOf(parts, 1), SegmentOf(parts, 2), SegmentOf(parts, 3)>>
\* the first three pieces as the operation that ran numbers the pieces
PiecesRead(r) ==
    IF op \in AppOps THEN <<LotPart(r, 1), LotPart(r, 2), LotPart(r, 3)>>
    ELSE FirstThree(Segments(r))
PieceRead(r, k) == PiecesRead(r)[k]
\* the pieces read, row by row
PiecesOf(df) == Frame([i \in DOMAIN df |-> PiecesRead(df[i])], DOMAIN df)

\* the date a piece spells by the six-character rule: its first six
\* characters after trimming, all digits, DDMMYY, a date of the calendar
SixCharDate(piece) ==
    IF IsNull(piece) \/ Len(Strip(Get(piece))) < 6 THEN Null
    ELSE IF \E c \in 1..6 : ~IsDigit(Strip(Get(piece))[c]) THEN Null
    ELSE DateOrNaT(Century(DigitsToInt(SubSeq(Strip(Get(piece)), 5, 6))),
                   DigitsToInt(SubSeq(Strip(Get(piece)), 3, 4)),
                   DigitsToInt(SubSeq(Strip(Get(piece)), 1, 2)))

----------------------------------------------------------------------------
(* C1 - C10 *)

\* C1: after remove_outliers the inlier and outlier tables are disjoint,
\* every record with a present numeric result is in one of them, and they
\* hold no record that was not in the input.
C1_Partition ==
    Ran => /\ out.cleaned \cap out.outliers = {}
           /\ \A i \in OutRows :
                 NotNull(out.df[i].result) => i \in out.cleaned \cup out.outliers
           /\ out.cleaned \cup out.outliers \subseteq 1..Len(table)

\* C2: a record whose numeric result is absent is in neither table, whenever
\* another record has a present numeric result.
C2_AbsentExcluded ==
    Ran => \A i \in OutRows :
              (IsNull(out.df[i].result) /\ \E j \in OutRows : NotNull(out.df[j].result))
                  => i \notin out.cleaned \cup out.outliers

\* C3 as claimed: final_date is present whenever warehouse_date, supplier_date
\* or the receipt date is present, whatever the category.
C3_AnyFieldGivesFinalDate ==
    Ran => \A i \in OutRows :
              (\/ NotNull(out.df[i].warehouse_date)
               \/ NotNull(out.df[i].supplier_date)
               \/ NotNull(out.df[i].receipt))
                  => NotNull(out.df[i].final_date)

\* C3 amended: final_date is present whenever one of the fields that
\* contribute for the record's category is present: warehouse_date or
\* supplier_date for raw material/packaging, the receipt date or
\* supplier_date for the others.
C3_CategoryFieldGivesFinalDate ==
    Ran => \A i \in OutRows :
              (\/ NotNull(out.df[i].supplier_date)
               \/ RowRmPg(out.df[i]) /\ NotNull(out.df[i].warehouse_date)
               \/ ~RowRmPg(out.df[i]) /\ NotNull(out.df[i].receipt))
                  => NotNull(out.df[i].final_date)
C3_Witness ==
    /\ Ran
    /\ \E i \in OutRows :
          /\ RowRmPg(out.df[i])
          /\ IsNull(out.df[i].warehouse_date)
          /\ NotNull(out.df[i].supplier_date)
          /\ NotNull(out.df[i].final_date)

\* C4: for a raw-material/packaging record final_date is warehouse_date when
\* that is present and supplier_date (possibly absent) otherwise; the receipt
\* date is never used.
C4_RmPgFinalDate ==
    Ran => \A i \in OutRows :
              RowRmPg(out.df[i]) =>
                  out.df[i].final_date =
                      IF NotNull(out.df[i].warehouse_date)
                      THEN out.df[i].warehouse_date ELSE out.df[i].supplier_date
C4_Witness ==
    /\ Ran
    /\ op \in AppOps
    /\ \E i \in OutRows :
          /\ RowRmPg(out.df[i])
          /\ NotNull(out.df[i].receipt)
          /\ IsNull(out.df[i].warehouse_date)
          /\ IsNull(out.df[i].supplier_date)
          /\ IsNull(out.df[i].final_date)

C6_OtherCategoryFields ==
    Ran => \A i \in OutRows :
              ~RowRmPg(out.df[i]) =>
                  /\ IsNull(out.df[i].warehouse_date)
                  /\ IsNull(out.df[i].supplier_name)
                  /\ NotNull(out.df[i].supplier_date) =>
                        /\ NotNull(Segment(out.df[i], 1))
                        /\ out.df[i].supplier_date =
                              ToDatetimeDDMMYY(Prefix(Get(Segment(out.df[i], 1)), 6))
C6_Witness ==
    /\ Ran
    /\ op \in AppOps
    /\ \E i \in OutRows :
          /\ ~RowRmPg(out.df[i])
          /\ out.df[i].lot = Some(LotFull)
          /\ NotNull(out.df[i].supplier_date)
          /\ IsNull(out.df[i].supplier_name)

\* C7: for a raw-material/packaging record supplier_name is the trimmed
\* second piece of the lot number when there is one and it is not "MBP", and
\* absent when the piece is missing or is "MBP" after trimming.
C7_SupplierName ==
    Ran => \A i \in OutRows :
              RowRmPg(out.df[i]) =>
                  out.df[i].supplier_name =
                      IF /\ NotNull(PieceRead(out.df[i], 2))
                         /\ Strip(Get(PieceRead(out.df[i], 2))) \notin {<<>>, SentinelMBP}
                      THEN Some(Strip(Get(PieceRead(out.df[i], 2)))) ELSE Null

\* C8: the fields are read from the segments numbered after the empty pieces
\* are discarded: warehouse date, supplier name and supplier date from
\* segments 0, 1, 2 of a raw-material/packaging record, supplier date from
\* segment 0 of another record (whichever way the date and the name are then
\* read from the segment).
DatesOfSegment(seg) ==
    IF IsNull(seg) THEN {Null}
    ELSE {parse_ddmmyy(Get(seg)), ToDatetimeDDMMYY(Prefix(Get(seg), 6))}
NameIsOfSegment(name, seg) ==
    \/ IsNull(name) /\ (IsNull(seg) \/ seg = Some(SentinelMBP))
    \/ NotNull(name) /\ NotNull(seg) /\ Strip(Get(name)) = Get(seg)
C8_SegmentNumbering ==
    Ran => \A i \in OutRows :
              IF RowRmPg(out.df[i])
              THEN /\ out.df[i].warehouse_date \in DatesOfSegment(Segment(out.df[i], 1))
                   /\ NameIsOfSegment(out.df[i].supplier_name, Segment(out.df[i], 2))
                   /\ out.df[i].supplier_date \in DatesOfSegment(Segment(out.df[i], 3))
              ELSE out.df[i].supplier_date \in DatesOfSegment(Segment(out.df[i], 1))

\* C9: a date read from a piece of the lot number is the date its first six
\* characters spell as DDMMYY, and is absent when the piece has fewer than six
\* characters, a non-digit among them, or spells no date of the calendar.
C9_SixCharDates ==
    Ran => \A i \in OutRows :
              IF RowRmPg(out.df[i])
              THEN /\ out.df[i].warehouse_date = SixCharDate(PieceRead(out.df[i], 1))
                   /\ out.df[i].supplier_date = SixCharDate(PieceRead(out.df[i], 3))
              ELSE out.df[i].supplier_date = SixCharDate(PieceRead(out.df[i], 1))

\* rows of the category whose k-th pieces agree have the same k-th field
FieldsIndependentIn(df, pieces) ==
    \A i, j \in DOMAIN df :
        (i < j /\ RowRmPg(df[i]) /\ RowRmPg(df[j])) =>
            /\ pieces[i][1] = pieces[j][1] => df[i].warehouse_date = df[j].warehouse_date
            /\ pieces[i][2] = pieces[j][2] => df[i].supplier_name = df[j].supplier_name
            /\ pieces[i][3] = pieces[j][3] => df[i].supplier_date = df[j].supplier_date

----------------------------------------------------------------------------
(* C11 - C20 *)

\* the bounds the operation that ran computed from the column it classified
BoundsUsed == Bounds(ResultColumn(out.df), PresentRows(ResultColumn(out.df), OutRows),
                     args.method, args.fh)
\* the position of x against lower_bound (sign = -1) or upper_bound
\* (sign = 1) of b: "out" strictly beyond it, "on" equal to it, "in" otherwise;
\* for the std method with dev = n*x - sum and the bound at distance
\* factor*std from the mean, in squares
StdGap(b, x) == b.std.n * (x \div b.std.g) - b.std.S
StdReach(b) == b.fh * b.fh * b.std.n * (b.std.n * b.std.SS - b.std.S * b.std.S)
Against(b, x, sign) ==
    IF b.nan THEN "nan"
    ELSE IF b.method = "IQR"
    THEN (IF sign * (8 * x - (IF sign = 1 THEN b.iqr.upper8 ELSE b.iqr.lower8)) > 0 THEN "out"
          ELSE IF 8 * x = (IF sign = 1 THEN b.iqr.upper8 ELSE b.iqr.lower8) THEN "on"
          ELSE "in")
    ELSE (IF sign * StdGap(b, x) < 0 THEN "in"
          ELSE IF 4 * (b.std.n - 1) * StdGap(b, x) * StdGap(b, x) > StdReach(b) THEN "out"
          ELSE IF 4 * (b.std.n - 1) * StdGap(b, x) * StdGap(b, x) = StdReach(b) THEN "on"
          ELSE "in")
StrictlyOutside(b, x) == Against(b, x, 0 - 1) = "out" \/ Against(b, x, 1) = "out"
OnABound(b, x) ==
    /\ ~StrictlyOutside(b, x)
    /\ Against(b, x, 0 - 1) = "on" \/ Against(b, x, 1) = "on"
StrictBoundsIn(df, b, cleaned, outliers) ==
    \A i \in DOMAIN df :
        NotNull(df[i].result) =>
            /\ i \in outliers <=> StrictlyOutside(b, Get(df[i].result))
            /\ OnABound(b, Get(df[i].result)) => i \in cleaned

\* C11: a numeric-present record is in the outlier table if and only if its
\* value is strictly below lower_bound or strictly above upper_bound, and a
\* record whose value equals a bound is in the inlier table, for both methods
\* and both implementations.
C11_StrictBounds ==
    Ran => StrictBoundsIn(out.df, BoundsUsed, out.cleaned, out.outliers)
C11_Witness ==
    /\ Ran
    /\ Cardinality(PresentRows(ResultColumn(out.df), OutRows)) >= 2
    /\ \E i \in OutRows :
          /\ NotNull(out.df[i].result)
          /\ OnABound(BoundsUsed, Get(out.df[i].result))
          /\ i \in out.cleaned
          /\ i \notin out.outliers

\* C12: in a degenerate case - the table has no rows, or it has rows and
\* none of them has a present numeric result - remove_outliers returns the
\* table it was given as the inlier table and an empty outlier table.
C12_DegenerateReturnsInput ==
    (Ran /\ PresentRows(ResultColumn(out.df), OutRows) = {})
        => (out.cleaned = OutRows /\ out.outliers = {})

\* the first maximal run "digits, optionally a period and more digits" of a
\* text t, read as a number (scaled): p is the first digit of t, q the end of
\* the digits from p, r the end of the digits after a period at q + 1
FirstDigitAt(t) ==
    CHOOSE p \in 1..Len(t) : IsDigit(t[p]) /\ \A j \in 1..(p - 1) : ~IsDigit(t[j])
DigitsEndFrom(t, p) ==
    CHOOSE q \in (p - 1)..Len(t) :
        /\ \A j \in p..q : IsDigit(t[j])
        /\ q = Len(t) \/ ~IsDigit(t[q + 1])
WholeValue(t, p, q) ==
    SumOver([j \in p..q |-> DigitVal(t[j]) * Pow10(q - j)], p..q)
FractionValue(t, p, q) ==
    SumOver([j \in p..q |-> IF j - p < FracDigits
                            THEN DigitVal(t[j]) * Pow10(FracDigits - 1 - (j - p)) ELSE 0],
            p..q)
RunValueFrom(t, p, q) ==
    WholeValue(t, p, q) * Scale
        + (IF q + 1 <= Len(t) /\ t[q + 1] = "."
           THEN FractionValue(t, q + 2, DigitsEndFrom(t, q + 2)) ELSE 0)
FirstRunValue(t) ==
    IF \A j \in 1..Len(t) : ~IsDigit(t[j]) THEN Null
    ELSE Some(RunValueFrom(t, FirstDigitAt(t), DigitsEndFrom(t, FirstDigitAt(t))))
CommaAsPeriod(s) == [i \in 1..Len(s) |-> IF s[i] = "," THEN "." ELSE s[i]]
Expected(cell) == IF IsNull(cell) THEN Null ELSE FirstRunValue(CommaAsPeriod(Get(cell)))

\* C13: the normalized result of every record is the value of the first
\* maximal run "digits, optionally a period and more digits" of its text with
\* every comma read as a period, and is absent when the text has no digit or
\* the cell is missing; "12,5 mg" gives 12.5, "abc" nothing, "< 0,01" 0.01.
C13_FirstNumericRun ==
    Ran => \A i \in OutRows :
              /\ out.df[i].result = Expected(table[i].result)
              /\ table[i].result = Some(ResTwelveHalfMg)
                    => out.df[i].result = Some(12 * Scale + Scale \div 2)
              /\ table[i].result = Some(ResText) => IsNull(out.df[i].result)
              /\ table[i].result = Some(ResBelowHundredth)
                    => out.df[i].result = Some(Scale \div 100)
C13_Witness ==
    /\ Ran
    /\ op = "normalize"
    /\ \E i \in OutRows :
          /\ table[i].result = Some(ResTwelveHalfMg)
          /\ out.df[i].result = Some(12 * Scale + Scale \div 2)

\* C14: a second run of the pipeline on the same table returns what the
\* first run returned: the same derived columns and the same inlier and
\* outlier tables.
C14_RerunIdentical ==
    [][op' \in {"dp.prepare_data.again", "app.stages.again"} => out' = out]_vars

\* C15: when the fetched table has rows and no 'Receipt Date' column,
\* prepare_data of either implementation returns its two tables, and every
\* record that is not raw material/packaging has final_date = supplier_date.
C15_NoReceiptColumn ==
    (op \in {"dp.prepare_data", "app.prepare_data"} /\ ~hasReceipt /\ table # <<>>)
        => /\ out.ok
           /\ \A i \in OutRows :
                 ~RowRmPg(out.df[i]) => out.df[i].final_date = out.df[i].supplier_date

\* what prepare_data of the implementation that ran derives for record i
\* when the table holds that record alone
RecordAlone(i) ==
    IF op \in DpOps
    THEN dp_prepare_data(<<table[i]>>, hasReceipt, args.method, args.fh).df[1]
    ELSE app_prepare_data(<<table[i]>>, hasReceipt, args.method, args.fh).df[1]
LotColumns(r) == <<r.warehouse_date, r.supplier_date, r.supplier_name>>
\* each derived field of a record follows from the record's own cell
CellsContainedIn(tbl, df) ==
    \A i \in DOMAIN df : \A j \in DOMAIN df :
        /\ tbl[i].result = tbl[j].result => df[i].result = df[j].result
        /\ tbl[i].receipt = tbl[j].receipt => df[i].receipt = df[j].receipt
        /\ (tbl[i].lot = tbl[j].lot /\ tbl[i].stype = tbl[j].stype)
              => LotColumns(df[i]) = LotColumns(df[j])

StageNo(position) ==
    CASE position = "none" -> 0
      [] position \in {"dp@fetched", "dp@fetch.none", "app@fetched", "app@fetch.none"} -> 1
      [] position \in {"dp@lot", "app@lot"} -> 2
      [] position \in {"dp@date", "app@date"} -> 3
      [] position \in {"dp@numeric", "app@numeric"} -> 4
      [] OTHER -> 5
\* the bounds of the default call on the whole result column of df
BoundsOver(df) ==
    Bounds(ResultColumn(df), PresentRows(ResultColumn(df), DOMAIN df),
           DefaultArgs.method, DefaultArgs.fh)
\* one step of a run of prepare_data keeps the order of the stages
StagesInOrder ==
    /\ StageNo(op') \in 2..4 => StageNo(op) = StageNo(op') - 1
    /\ out'.ok => StageNo(op) = 4
    \* before the numeric stage 'Actual result' is the fetched cell, and no
    \* final_date exists while the lot columns are being made
    /\ StageNo(op') \in 2..3 =>
          \A i \in DOMAIN out'.df : out'.df[i].result = table[i].result
    /\ StageNo(op') = 2 =>
          \A i \in DOMAIN out'.df : "final_date" \notin DOMAIN out'.df[i]
    /\ StageNo(op') = 3 =>
          \A i \in DOMAIN out'.df : LotColumns(out'.df[i]) = LotColumns(out.df[i])
    \* after the numeric stage every record is normalized, none classified
    /\ StageNo(op') = 4 =>
          /\ \A i \in DOMAIN out'.df : out'.df[i].result = Expected(table[i].result)
          /\ out'.cleaned = {} /\ out'.outliers = {}
    \* the classification is against the bounds of the whole normalized column
    /\ out'.ok =>
          /\ out'.df = out.df
          /\ StrictBoundsIn(out.df, BoundsOver(out.df), out'.cleaned, out'.outliers)

\* C17: in every run of prepare_data the stages run in the order lot
\* parsing, date unification, numeric normalization, outlier classification;
\* the bounds are computed after every record has been normalized, from all
\* the present normalized values; no stage uses a column a later stage makes.
C17_StageOrder == [][StagesInOrder]_vars
C17_Witness ==
    /\ StageNo(op) = 4
    /\ Len(table) >= 2
    /\ \E i \in DOMAIN out.df : \E j \in DOMAIN out.df :
          /\ NotNull(out.df[i].result)
          /\ NotNull(table[j].result)
          /\ IsNull(out.df[j].result)

\* C20: when get_bigquery_data returns None or a table without rows,
\* prepare_data returns the failure pair (None, None) at once: no stage runs.
C20_NoDataNoStage ==
    [][(StageNo(op) = 1 /\ (op \in {"dp@fetch.none", "app@fetch.none"} \/ table = <<>>))
          => (op' \in {"dp.prepare_data", "app.prepare_data"} /\ out' = Failed)]_vars
C20_Witness ==
    /\ op \in {"dp.prepare_data", "app.prepare_data"}
    /\ out = Failed
    /\ hasReceipt
    /\ table # <<>>

\* the present values of the classified column in ascending order
RECURSIVE Ascending(_, _)
Ascending(col, P) ==
    IF P = {} THEN <<>>
    ELSE LET i == CHOOSE j \in P : \A h \in P : Get(col[j]) <= Get(col[h])
         IN  <<Get(col[i])>> \o Ascending(col, P \ {i})
\* four times the percentile num/4 of the ascending values vs, interpolated
\* linearly between the two values around position (n - 1) * num / 4
Percentile4(vs, num) ==
    LET h == (Len(vs) - 1) * num
        k == h \div 4 + 1
    IN  IF h % 4 = 0 THEN 4 * vs[k]
        ELSE 4 * vs[k] + (h % 4) * (vs[k + 1] - vs[k])
IqrOf(vs, fh) ==
    [lower8 |-> 2 * Percentile4(vs, 1) - fh * (Percentile4(vs, 3) - Percentile4(vs, 1)),
     upper8 |-> 2 * Percentile4(vs, 3) + fh * (Percentile4(vs, 3) - Percentile4(vs, 1))]
PresentValues == Ascending(ResultColumn(out.df), PresentRows(ResultColumn(out.df), OutRows))

\* C18: the IQR bounds are Q1 - factor*IQR and Q3 + factor*IQR with Q1 and
\* Q3 the linearly interpolated 25th and 75th percentiles of the present
\* values; for the column 1, 2, ..., 9, 100 and factor 1.5: Q1 = 3.25,
\* Q3 = 7.75, the bounds are -3.5 and 14.5, the record with 100 is the only
\* outlier and the nine others are inliers.
C18_IqrExample ==
    (Ran /\ args.method = "IQR" /\ PresentValues # <<>>)
        => /\ BoundsUsed.iqr = IqrOf(PresentValues, args.fh)
           /\ (table = ExampleTable /\ args.fh = 3)
                 => /\ Percentile4(PresentValues, 1) = 13 * Scale
                    /\ Percentile4(PresentValues, 3) = 31 * Scale
                    /\ BoundsUsed.iqr.lower8 = 0 - 28 * Scale
                    /\ BoundsUsed.iqr.upper8 = 116 * Scale
                    /\ out.outliers = {10}
                    /\ out.cleaned = 1..9
C18_Witness ==
    /\ Ran
    /\ table = ExampleTable
    /\ args = DefaultArgs
    /\ out.outliers = {10}
    /\ out.cleaned = 1..9

\* a filter has run with both a start and an end date applied
RangeApplied ==
    /\ op \in {"app.filter_data", "main.filter"}
    /\ NotNull(args.start_date)
    /\ NotNull(args.end_date)

\* C19: once a date range with a start and an end is applied, no record
\* without a final_date is in the filtered main table or in the filtered
\* outlier table, whatever the other selections.
C19_RangeExcludesAbsentDates ==
    RangeApplied =>
        \A i \in out.cleaned \cup out.outliers : NotNull(out.df[i].final_date)
C19_Witness ==
    /\ RangeApplied
    /\ out.cleaned # {}
    /\ \E i \in OutRows :
          /\ IsNull(out.df[i].final_date)
          /\ Selected(args.sample_vals, out.df[i].stype)
          /\ ~StrictlyOutside(BoundsOver(out.df), Get(out.df[i].result))
    /\ \E i \in OutRows :
          /\ IsNull(out.df[i].final_date)
          /\ StrictlyOutside(BoundsOver(out.df), Get(out.df[i].result))

\* C21: every present normalized result is greater than or equal to zero;
\* the pattern takes no sign, so "-5" is normalized to 5 and "-0,3" to 0.3,
\* neither to a negative number nor to nothing.
C21_NeverNegative ==
    Ran => \A i \in OutRows :
              /\ NotNull(out.df[i].result) => Get(out.df[i].result) >= 0
              /\ table[i].result = Some(ResMinusFive) => out.df[i].result = Some(5 * Scale)
              /\ table[i].result = Some(ResMinusFraction)
                    => out.df[i].result = Some((3 * Scale) \div 10)
C21_Witness ==
    /\ op = "normalize"
    /\ out.ok
    /\ \E i \in OutRows :
          /\ table[i].result = Some(ResMinusFraction)
          /\ out.df[i].result = Some((3 * Scale) \div 10)

\* call j repeats the arguments of call i, no call between them has those
\* arguments, and the calls between them have fewer distinct arguments than
\* the cache has room for
StillRetained(i, j) ==
    /\ i < j
    /\ log[i].key = log[j].key
    /\ \A h \in (i + 1)..(j - 1) : log[h].key # log[j].key
    /\ Cardinality({log[h].key : h \in (i + 1)..(j - 1)}) < CacheMaxSize

\* C22: app.prepare_data is memoized on (date_limit, limit): a later call
\* with the arguments of an earlier one returns the earlier result without
\* calling get_bigquery_data, also when that result is the failure pair, as
\* long as the entry is among the at most 2 the cache retains.
C22_Memoized ==
    /\ Len(cache) <= 2
    /\ \A j \in 1..Len(log) : \A i \in 1..Len(log) :
          StillRetained(i, j) => (log[j].out = log[i].out /\ ~log[j].fetched)
C22_Witness ==
    /\ table # <<>>
    /\ \E j \in 1..Len(log) : \E i \in 1..Len(log) :
          /\ StillRetained(i, j)
          /\ j > i + 1
          /\ log[i].out = Failed
          /\ log[j].out = Failed
          /\ ~log[j].fetched

\* the tab content drawn for tab t from the stores st
DrawnFrom(content, t, st) ==
    IF IsNull(st.main) THEN content.kind = "No data available."
    ELSE /\ content.kind = "chart"
         /\ content.tab = t
         /\ content.main = Get(st.main)
         /\ content.outl \in {{}} \cup {Get(x) : x \in {st.outl} \ {Null}}
\* one step of the page
TabContentFollowsTabEvents ==
    /\ op' = "dash.filter_data" => shown' = shown
    /\ shown' # shown => op' \in {"dash.load", "dash.render_tab_content"}
    /\ op' \in {"dash.load", "dash.render_tab_content"} => DrawnFrom(shown', tab', stores)

\* C23: the tab content is rendered only when the selected tab changes (the
\* opening of the page included), from the stores as they are at that
\* moment; a filter change updates the stores and leaves the content as it
\* is; the content is "No data available." when the main store was empty at
\* the tab event.
C23_RenderOnlyOnTabChange == [][TabContentFollowsTabEvents]_vars
C23_Witness ==
    /\ op = "dash.filter_data"
    /\ shown.kind = "chart"
    /\ NotNull(stores.main)
    /\ shown.main # Get(stores.main)

============================================================================
